---- MODULE Spec2Model ----
(***************************************************************************)
(* Cahier de Tests ERP (src/src/App.tsx): the document held in the React   *)
(* state `data`, the handlers that change it, the JSON export / restore    *)
(* path and the RichTextEditor effects that bind a Quill surface to a      *)
(* step's content.                                                         *)
(*                                                                         *)
(* JavaScript values are modelled as tagged records, so that a string, an  *)
(* array, null and an object never compare equal by accident:              *)
(*   Str(s)  a string, s a sequence of symbols (a symbol is a character,   *)
(*           or a run of characters that JSON never escapes)               *)
(*   Arr(q)  an array, Obj(r) an object with the own keys DOMAIN r         *)
(*   Null, Num (the number 42), Undefined                                  *)
(***************************************************************************)
EXTENDS Naturals, Sequences, FiniteSets, TLC

\* ------------------------------------------------------------ bounds
\* most steps a document is grown to by addStep
MaxSteps == 3
\* most calls of crypto.randomUUID() in one run
MaxUuid == 3
\* how many PDF exports (pending timers and unsettled html2pdf calls) may overlap
MaxPending == 2

\* ------------------------------------------------------------ JS values
Str(s) == [t |-> "str", v |-> s]
Arr(q) == [t |-> "arr", v |-> q]
Obj(r) == [t |-> "obj", v |-> r]
Null == [t |-> "null"]
Num == [t |-> "num"]
Undefined == [t |-> "undefined"]

\* o[k] of JavaScript: undefined when o has no own key k
Get(o, k) == IF o.t = "obj" /\ k \in DOMAIN o.v THEN o.v[k] ELSE Undefined

\* typeof x === 'object' (true of null, arrays and objects)
TypeofObject(x) == x.t \in {"null", "arr", "obj"}

\* the truthiness of a value in a condition
Truthy(x) ==
  CASE x.t = "str" -> x.v # <<>>
    [] x.t \in {"null", "undefined"} -> FALSE
    [] OTHER -> TRUE

\* {...o, [k]: v}: the own keys of o, with k set to v
Spread(o, k, v) == Obj((k :> v) @@ (IF o.t = "obj" THEN o.v ELSE <<>>))

DigitSym == <<"1", "2", "3", "4", "5", "6", "7", "8", "9">>

\* the decimal digits of n > 0, as `${n}` prints them
Dec(n) ==
  IF n < 10 THEN <<DigitSym[n]>>
  ELSE <<DigitSym[n \div 10], IF n % 10 = 0 THEN "0" ELSE DigitSym[n % 10]>>

\* ------------------------------------------------------------ JSON
QUOTE == "\""
BSLASH == "\\"
WS == " "

\* the order in which the members of an object are written
KeyOrder ==
  << "jiraNumber", "jiraName", "type", "date", "environment", "conclusion",
     "localImage", "steps", "id", "title", "content", "version" >>

\* a stringify that writes the characters of a string as they are
Escape_None(s) == s

RECURSIVE Escape(_)
\* the characters of a string as JSON.stringify writes them inside quotes
Escape(s) ==
  IF s = <<>> THEN <<>>
  ELSE (IF Head(s) \in {QUOTE, BSLASH} THEN <<BSLASH, Head(s)>> ELSE <<Head(s)>>)
       \o Escape(Tail(s))

QuoteStr(s) == <<QUOTE>> \o Escape(s) \o <<QUOTE>>

\* the line break and indentation JSON.stringify(x, null, 2) inserts
Gap(indent) == IF indent THEN <<WS>> ELSE <<>>

RECURSIVE JSONstringify(_, _)
RECURSIVE StringifyItems(_, _)
RECURSIVE StringifyMembers(_, _, _)

StringifyItems(q, indent) ==
  IF q = <<>> THEN <<>>
  ELSE JSONstringify(Head(q), indent)
       \o (IF Tail(q) = <<>> THEN <<>>
           ELSE <<",">> \o Gap(indent) \o StringifyItems(Tail(q), indent))

StringifyMembers(r, keys, indent) ==
  IF keys = <<>> THEN <<>>
  ELSE QuoteStr(<<Head(keys)>>) \o <<":">> \o Gap(indent)
       \o JSONstringify(r[Head(keys)], indent)
       \o (IF Tail(keys) = <<>> THEN <<>>
           ELSE <<",">> \o Gap(indent) \o StringifyMembers(r, Tail(keys), indent))

\* JSON.stringify(x) (indent FALSE) and JSON.stringify(x, null, 2) (indent TRUE)
JSONstringify(x, indent) ==
  CASE x.t = "str" -> QuoteStr(x.v)
    [] x.t = "null" -> <<"null">>
    [] x.t = "num" -> <<"42">>
    [] x.t = "arr" ->
         IF x.v = <<>> THEN <<"[", "]">>
         ELSE <<"[">> \o Gap(indent) \o StringifyItems(x.v, indent)
              \o Gap(indent) \o <<"]">>
    [] x.t = "obj" ->
         LET keys == SelectSeq(KeyOrder, LAMBDA k : k \in DOMAIN x.v)
         IN  IF keys = <<>> THEN <<"{", "}">>
             ELSE <<"{">> \o Gap(indent) \o StringifyMembers(x.v, keys, indent)
                  \o Gap(indent) \o <<"}">>
    [] OTHER -> <<>>

\* a parse that failed (JSON.parse throws SyntaxError)
Fail == [ok |-> FALSE]
Ok(x, i) == [ok |-> TRUE, v |-> x, i |-> i]

RECURSIVE SkipWs(_, _)
SkipWs(txt, i) == IF i <= Len(txt) /\ txt[i] = WS THEN SkipWs(txt, i + 1) ELSE i

RECURSIVE ParseString(_, _, _)
\* the string whose opening quote is just before position i
ParseString(txt, i, acc) ==
  IF i > Len(txt) THEN Fail
  ELSE IF txt[i] = QUOTE THEN Ok(Str(acc), i + 1)
  ELSE IF txt[i] = BSLASH THEN
         IF i + 1 <= Len(txt) /\ txt[i + 1] \in {QUOTE, BSLASH}
         THEN ParseString(txt, i + 2, Append(acc, txt[i + 1]))
         ELSE Fail
  ELSE ParseString(txt, i + 1, Append(acc, txt[i]))

RECURSIVE ParseValue(_, _)
RECURSIVE ParseItems(_, _, _)
RECURSIVE ParseMembers(_, _, _)

\* the items of an array, the first of which starts at position i
ParseItems(txt, i, acc) ==
  LET item == ParseValue(txt, i)
  IN  IF ~item.ok THEN Fail
      ELSE LET j == SkipWs(txt, item.i)
           IN  IF j > Len(txt) THEN Fail
               ELSE IF txt[j] = "]" THEN Ok(Arr(Append(acc, item.v)), j + 1)
               ELSE IF txt[j] = ","
                    THEN ParseItems(txt, SkipWs(txt, j + 1), Append(acc, item.v))
               ELSE Fail

\* the members of an object, the first of which starts at position i
ParseMembers(txt, i, acc) ==
  IF i > Len(txt) \/ txt[i] # QUOTE THEN Fail
  ELSE LET key == ParseString(txt, i + 1, <<>>)
       IN  IF ~key.ok \/ Len(key.v.v) # 1 THEN Fail
           ELSE LET c == SkipWs(txt, key.i)
                IN  IF c > Len(txt) \/ txt[c] # ":" THEN Fail
                    ELSE LET val == ParseValue(txt, SkipWs(txt, c + 1))
                         IN  IF ~val.ok THEN Fail
                             ELSE LET j == SkipWs(txt, val.i)
                                      r == (key.v.v[1] :> val.v) @@ acc
                                  IN  IF j > Len(txt) THEN Fail
                                      ELSE IF txt[j] = "}" THEN Ok(Obj(r), j + 1)
                                      ELSE IF txt[j] = ","
                                           THEN ParseMembers(txt, SkipWs(txt, j + 1), r)
                                      ELSE Fail

ParseValue(txt, i) ==
  IF i > Len(txt) THEN Fail
  ELSE CASE txt[i] = "null" -> Ok(Null, i + 1)
         [] txt[i] = "42" -> Ok(Num, i + 1)
         [] txt[i] = QUOTE -> ParseString(txt, i + 1, <<>>)
         [] txt[i] = "[" ->
              LET j == SkipWs(txt, i + 1)
              IN  IF j <= Len(txt) /\ txt[j] = "]" THEN Ok(Arr(<<>>), j + 1)
                  ELSE ParseItems(txt, j, <<>>)
         [] txt[i] = "{" ->
              LET j == SkipWs(txt, i + 1)
              IN  IF j <= Len(txt) /\ txt[j] = "}" THEN Ok(Obj(<<>>), j + 1)
                  ELSE ParseMembers(txt, j, <<>>)
         [] OTHER -> Fail

\* JSON.parse(txt): the value, or a failure where JSON.parse throws
JSONparse(txt) ==
  LET r == ParseValue(txt, SkipWs(txt, 1))
  IN  IF r.ok /\ SkipWs(txt, r.i) = Len(txt) + 1 THEN [ok |-> TRUE, v |-> r.v]
      ELSE Fail

\* ------------------------------------------------------------ the document
\* the n-th value crypto.randomUUID() returns: never one it returned before
randomUUID(n) == Str(<<"uuid">> \o Dec(n))

\* new Date().toISOString().split('T')[0] on the day the page is loaded
Today == Str(<<"2026-11-01">>)

\* the Quill surface's default empty document
EmptyHtml == Str(<<"<p><br></p>">>)

NewStep(id, n) ==
  Obj([id |-> id, title |-> Str(<<"Etape ">> \o Dec(n)), content |-> Str(<<>>)])

INITIAL_DATA ==
  Obj([ jiraNumber |-> Str(<<>>), jiraName |-> Str(<<>>), type |-> Str(<<"TMD">>),
        date |-> Today, environment |-> Str(<<"FRECMCOR">>),
        conclusion |-> Str(<<"OK">>), localImage |-> Null,
        steps |-> Arr(<<NewStep(randomUUID(1), 1)>>) ])

\* d.steps as a sequence (d.steps is an array in every state a handler runs in)
StepsOf(d) == Get(d, "steps").v

\* the set of the ids of d's steps
StepIds(d) == {Get(StepsOf(d)[i], "id") : i \in DOMAIN StepsOf(d)}

\* prev => ({...prev, [name]: value})
handleInputChangeUpdater(prev, name, value) == Spread(prev, name, value)

\* addStep with the new step put first: [{...}, ...prev.steps]
addStepUpdater_Prepends(prev, id) ==
  Spread(prev, "steps",
         Arr(<<NewStep(id, Len(StepsOf(prev)) + 1)>> \o StepsOf(prev)))

\* prev => ({...prev, steps: [...prev.steps, {id, title: `Étape ${n + 1}`, content: ''}]})
addStepUpdater(prev, id) ==
  Spread(prev, "steps",
         Arr(Append(StepsOf(prev), NewStep(id, Len(StepsOf(prev)) + 1))))

\* removeStep with the test inverted: filter(step => step.id === id)
removeStepUpdater_KeepsMatch(prev, id) ==
  Spread(prev, "steps", Arr(SelectSeq(StepsOf(prev), LAMBDA step : Get(step, "id") = id)))

\* prev => ({...prev, steps: prev.steps.filter(step => step.id !== id)})
removeStepUpdater(prev, id) ==
  Spread(prev, "steps", Arr(SelectSeq(StepsOf(prev), LAMBDA step : Get(step, "id") # id)))

RECURSIVE MapSteps(_, _, _)
\* steps.map(step => step.id === id ? {...step, ...updates} : step)
MapSteps(steps, id, updates) ==
  IF steps = <<>> THEN <<>>
  ELSE <<IF Get(Head(steps), "id") = id THEN Obj(updates @@ Head(steps).v)
         ELSE Head(steps)>>
       \o MapSteps(Tail(steps), id, updates)

RECURSIVE MapStepsInverted(_, _, _)
MapStepsInverted(steps, id, updates) ==
  IF steps = <<>> THEN <<>>
  ELSE <<IF Get(Head(steps), "id") # id THEN Obj(updates @@ Head(steps).v)
         ELSE Head(steps)>>
       \o MapStepsInverted(Tail(steps), id, updates)

\* updateStep with the test inverted: step.id !== id ? {...step, ...updates} : step
updateStepUpdater_Inverted(prev, id, updates) ==
  Spread(prev, "steps", Arr(MapStepsInverted(StepsOf(prev), id, updates)))

\* prev => ({...prev, steps: prev.steps.map(...)})
updateStepUpdater(prev, id, updates) ==
  Spread(prev, "steps", Arr(MapSteps(StepsOf(prev), id, updates)))

\* a value React cannot render as a child ({data.type}, {step.title}, ...)
NotAChild(x) == x.t = "obj"

\* the render of App throws: data.jiraNumber.replace (684), data.steps.map and
\* data.steps.length (980, 1012, 1149), step.id of a null step, an object child
RenderThrows(d) ==
  \/ Get(d, "jiraNumber").t # "str"
  \/ Get(d, "steps").t # "arr"
  \/ \E i \in DOMAIN StepsOf(d) :
       \/ StepsOf(d)[i].t \in {"null", "undefined"}
       \/ NotAChild(Get(StepsOf(d)[i], "title"))
  \/ \E k \in {"jiraName", "type", "environment", "conclusion"} : NotAChild(Get(d, k))

\* ------------------------------------------------------------ rendering
\* what \d matches
Digits == {"0", "1", "2", "3", "4", "5", "6", "7", "8", "9"}

\* s.replace(/\D/, ''): without the g flag only the first match is removed
RECURSIVE ReplaceFirstNonDigit(_)
ReplaceFirstNonDigit(s) ==
  IF s = <<>> THEN <<>>
  ELSE IF Head(s) \notin Digits THEN Tail(s)
  ELSE <<Head(s)>> \o ReplaceFirstNonDigit(Tail(s))

\* s.replace(/\D/g, ''): every match of \D is replaced by ''
RECURSIVE ReplaceNonDigits(_)
ReplaceNonDigits(s) ==
  IF s = <<>> THEN <<>>
  ELSE (IF Head(s) \notin Digits THEN <<>> ELSE <<Head(s)>>)
       \o ReplaceNonDigits(Tail(s))

\* the extraction without the g flag
jiraDigits_FirstOnly(d) == Str(ReplaceFirstNonDigit(Get(d, "jiraNumber").v))

\* const jiraDigits = data.jiraNumber.replace(/\D/g, '')
jiraDigits(d) == Str(ReplaceNonDigits(Get(d, "jiraNumber").v))

SqlHead == "select * from ps_s1_scripts_tbl where s1_script_name like '%"
SqlTail == "J%';"
Placeholder == <<"X", "X", "X", "X">>

\* the query template around {jiraDigits || 'XXXX'}
SqlText(digits) ==
  <<SqlHead>> \o (IF Truthy(digits) THEN digits.v ELSE Placeholder) \o <<SqlTail>>

\* const sqlQuery, shown in the form
sqlQuery(d) == SqlText(jiraDigits(d))

\* data.steps.map in the reverse order
RECURSIVE StepBlocks_Reversed(_, _)
StepBlocks_Reversed(steps, idx) ==
  IF steps = <<>> THEN <<>>
  ELSE StepBlocks_Reversed(Tail(steps), idx + 1)
       \o << [ kind |-> "step", atomic |-> TRUE, key |-> Get(Head(steps), "id"),
               title |-> <<"Etape ", Dec(idx), " : ", Get(Head(steps), "title")>>,
               html |-> Get(Head(steps), "content") ] >>

\* data.steps.map((step, idx) => <div key style={{pageBreakInside: 'avoid'}}>...):
\* the blocks of steps, the first of them being step number idx
RECURSIVE StepBlocks(_, _)
StepBlocks(steps, idx) ==
  IF steps = <<>> THEN <<>>
  ELSE << [ kind |-> "step", atomic |-> TRUE, key |-> Get(Head(steps), "id"),
            title |-> <<"Etape ", Dec(idx), " : ", Get(Head(steps), "title")>>,
            html |-> Get(Head(steps), "content") ] >>
       \o StepBlocks(Tail(steps), idx + 1)

\* the <div className="pdf-content"> of PrintContent, block after block
PrintContent(props) ==
  LET d == props.data IN
  << [kind |-> "sql", text |-> SqlText(props.jiraDigits)] >>
  \o (IF Truthy(Get(d, "localImage"))
      THEN << [kind |-> "image", src |-> Get(d, "localImage")] >>
      ELSE <<>>)
  \o << [kind |-> "environment", text |-> Get(d, "environment")] >>
  \o StepBlocks(StepsOf(d), 1)
  \o << [ kind |-> "conclusion", atomic |-> TRUE,
          class |-> IF Get(d, "conclusion") = Str(<<"OK">>)
                    THEN "conclusion-ok" ELSE "conclusion-ko",
          text |-> <<"BON POUR PROD ", Get(d, "conclusion")>> ] >>

\* the footer both containers add
Footer(d) == <<Get(d, "jiraNumber"), " / ", Get(d, "jiraName"), "Cahier de recette">>

\* a preview that passes the raw jiraNumber for jiraDigits
PreviewProps_RawNumber(d) == [data |-> d, jiraDigits |-> Get(d, "jiraNumber")]

\* <PrintContent data={data} jiraDigits={jiraDigits} /> of the preview modal
PreviewProps(d) == [data |-> d, jiraDigits |-> jiraDigits(d)]

\* <PrintContent data={data} jiraDigits={jiraDigits} /> of the print template
PrintProps(d) == [data |-> d, jiraDigits |-> jiraDigits(d)]

\* the preview modal (shown while isPreviewOpen)
Preview(d) ==
  [ container |-> "print-container shadow-2xl relative",
    content |-> PrintContent(PreviewProps(d)), footer |-> Footer(d) ]

\* the hidden print template, which window.print() prints
PrintTemplate(d) ==
  [ container |-> "print-container relative",
    content |-> PrintContent(PrintProps(d)), footer |-> Footer(d) ]

\* ------------------------------------------------------------ state
VARIABLES
  data,      \* useState<AppData>: the document
  crashed,   \* a render threw: React has unmounted the application
  uuid,      \* how many values crypto.randomUUID() has returned
  alert,     \* the message of the alert() the last handler raised, or "none"
  call,      \* the last handler that ran and what it met (an observation)
  fx,        \* the last effect that ran and whether it wrote (an observation)
  download,  \* the last file downloadJSON produced: its text (<<>>: none yet)
             \* and, as an observation, the document it was made of
  storage,   \* localStorage's item erp_test_notebook_data, likewise
  editors,   \* step id -> the RichTextEditor mounted for it
  effects,   \* the useEffect bodies scheduled by the last commit, not yet run
  subs,      \* the step ids whose Quill instance holds a text-change handler
  pdf        \* PDF export: isGenerating, the pending setTimeout callbacks and
             \* the html2pdf calls not yet settled; the file name the last
             \* click built, the document it built it from (an observation),
             \* and the document the template showed when html2pdf was called

vars ==
  <<data, crashed, uuid, alert, call, fx, download, storage, editors, effects,
    subs, pdf>>

\* ------------------------------------------------------------ RichTextEditor
\* a RichTextEditor just mounted: quillRef.current is null, the div is empty
NewEditor == [quill |-> FALSE, html |-> Str(<<>>), doc |-> Str(<<>>), dirty |-> FALSE]

\* the `value` prop of the editor of step id: step.content of the step keyed id
ValueOf(d, id) ==
  LET hits == SelectSeq(StepsOf(d), LAMBDA step : Get(step, "id") = id)
  IN  IF hits = <<>> THEN Undefined ELSE Get(Head(hits), "content")

\* the editors after the commit of a render of d: one per step key, the mounted
\* ones kept, those of removed keys unmounted
CommitEditors(eds, d) ==
  [id \in StepIds(d) |-> IF id \in DOMAIN eds THEN eds[id] ELSE NewEditor]

\* the effects the commit schedules: both effects of a new editor, the [value]
\* effect of an editor whose value prop changed
CommitEffects(eds, old, d) ==
  {<<kind, id>> : kind \in {"mount", "value"}, id \in StepIds(d) \ DOMAIN eds}
  \cup {<<"value", id>> : id \in {i \in StepIds(d) \cap DOMAIN eds :
                                    ValueOf(d, i) # ValueOf(old, i)}}

\* setData(...) and the render it causes, from the editors eds
SetData(new, eds) ==
  /\ data' = new
  /\ IF RenderThrows(new)
     THEN crashed' = TRUE /\ editors' = <<>> /\ effects' = {}
     ELSE /\ crashed' = FALSE
          /\ editors' = CommitEditors(eds, new)
          /\ effects' = CommitEffects(eds, data, new)

\* the page is idle: every scheduled effect and observer callback has run
Quiescent ==
  /\ ~crashed
  /\ effects = {}
  /\ \A id \in DOMAIN editors : ~editors[id].dirty

\* what Quill makes of the DOM of its root: an emptied root gets the default block
Canon(html) == IF html = Str(<<>>) THEN EmptyHtml ELSE html

\* ------------------------------------------------------------ inputs
JiraNumber1 == Str(<<"E", "-", "1">>)
UserTitle == Str(<<"T">>)
HtmlA == Str(<<"<p>a</p>">>)
\* markup with characters JSON escapes
HtmlQ == Str(<<"<a href=", QUOTE, "x", QUOTE, ">", BSLASH, "</a>">>)
ImageUri == Str(<<"data:image/png;base64,">>)
ForeignId == Str(<<"f1">>)

\* the ids a handler may be called with: those generated so far, and a foreign one
KnownIds == {randomUUID(n) : n \in 1..uuid} \cup {ForeignId}

ForeignStep(content) == Obj([id |-> ForeignId, title |-> UserTitle, content |-> content])
ForeignDoc ==
  Obj([ jiraNumber |-> JiraNumber1, jiraName |-> Str(<<"N">>),
        type |-> Str(<<"TMA">>), date |-> Today, environment |-> Str(<<"FPOST">>),
        conclusion |-> Str(<<"KO">>), localImage |-> Null,
        steps |-> Arr(<<ForeignStep(HtmlA)>>) ])
\* the same without the member steps
NoStepsDoc == Obj([k \in DOMAIN ForeignDoc.v \ {"steps"} |-> ForeignDoc.v[k]])
BadEnumDoc == Spread(ForeignDoc, "type", Str(<<"XYZ">>))
DupIdsDoc == Spread(ForeignDoc, "steps", Arr(<<ForeignStep(HtmlA), ForeignStep(Str(<<>>))>>))

\* a picked file: its text, and what JSON.parse makes of that text
File(txt) == [txt |-> txt, json |-> JSONparse(txt)]

\* the files the user may pick
CraftedFiles ==
  { File(txt) : txt \in
      { <<"{", QUOTE>>, <<"null">>, <<"42">>, QuoteStr(<<"x">>), <<"[", "]">>,
        JSONstringify(NoStepsDoc, TRUE), JSONstringify(BadEnumDoc, TRUE),
        JSONstringify(DupIdsDoc, TRUE), JSONstringify(ForeignDoc, TRUE) } }

\* ------------------------------------------------------------ handlers
\* the observation of a handler: its name, whether it met what it looked for,
\* and for a run of addStep calls its length and the steps before the run
Called(op, hit) == call' = [op |-> op, hit |-> hit, run |-> 0, base |-> <<>>]

NoFile == [txt |-> <<>>, of |-> Null]

NoFx == [op |-> "none", id |-> Null, wrote |-> FALSE]

handleInputChange(name, value) ==
  /\ Quiescent
  /\ SetData(handleInputChangeUpdater(data, name, value), editors)
  /\ alert' = "none"
  /\ Called("handleInputChange", TRUE)
  /\ UNCHANGED <<uuid, subs, pdf, fx, download, storage>>

\* the two conclusion buttons
setConclusion(c) ==
  /\ Quiescent
  /\ SetData(Spread(data, "conclusion", Str(<<c>>)), editors)
  /\ alert' = "none"
  /\ Called("setConclusion", TRUE)
  /\ UNCHANGED <<uuid, subs, pdf, fx, download, storage>>

\* reader.onloadend of handleImageUpload
handleImageUpload ==
  /\ Quiescent
  /\ SetData(Spread(data, "localImage", ImageUri), editors)
  /\ alert' = "none"
  /\ Called("handleImageUpload", TRUE)
  /\ UNCHANGED <<uuid, subs, pdf, fx, download, storage>>

addStep ==
  /\ Quiescent
  /\ Len(StepsOf(data)) < MaxSteps
  /\ uuid < MaxUuid
  /\ uuid' = uuid + 1
  /\ SetData(addStepUpdater(data, randomUUID(uuid + 1)), editors)
  /\ alert' = "none"
  /\ call' = [op |-> "addStep", hit |-> TRUE, run |-> call.run + 1,
              base |-> IF call.run = 0 THEN StepsOf(data) ELSE call.base]
  /\ UNCHANGED <<fx, download, storage, subs, pdf>>

removeStep(id) ==
  /\ Quiescent
  /\ SetData(removeStepUpdater(data, id), editors)
  /\ alert' = "none"
  /\ Called("removeStep", id \in StepIds(data))
  /\ UNCHANGED <<uuid, subs, pdf, fx, download, storage>>

updateStep(id, updates) ==
  /\ Quiescent
  /\ SetData(updateStepUpdater(data, id, updates), editors)
  /\ alert' = "none"
  /\ Called("updateStep", id \in StepIds(data))
  /\ UNCHANGED <<uuid, subs, pdf, fx, download, storage>>

\* reader.onload of handleFileUpload, on the picked file
handleFileUpload(file) ==
  /\ Quiescent
  /\ IF ~file.json.ok
     THEN /\ alert' = "Erreur lors de la lecture du fichier de sauvegarde"
          /\ UNCHANGED <<data, crashed, editors, effects>>
     ELSE IF Truthy(file.json.v) /\ TypeofObject(file.json.v)
     THEN /\ SetData(file.json.v, editors)
          /\ alert' = "Donnees restaurees avec succes"
     ELSE /\ alert' = "none"
          /\ UNCHANGED <<data, crashed, editors, effects>>
  /\ Called("handleFileUpload", file.json.ok)
  /\ UNCHANGED <<uuid, subs, pdf, fx, download, storage>>

downloadJSON ==
  /\ Quiescent
  /\ download' = [txt |-> JSONstringify(data, TRUE), of |-> data]
  /\ alert' = "none"
  /\ Called("downloadJSON", TRUE)
  /\ UNCHANGED <<data, crashed, uuid, subs, pdf, fx, storage, editors, effects>>

saveToLocalStorage ==
  /\ Quiescent
  /\ storage' = [txt |-> JSONstringify(data, FALSE), of |-> data]
  /\ alert' = "Donnees sauvegardees localement"
  /\ Called("saveToLocalStorage", TRUE)
  /\ UNCHANGED <<data, crashed, uuid, subs, pdf, fx, download, editors, effects>>

restoreFromLocalStorage ==
  /\ Quiescent
  /\ IF storage.txt = <<>>
     THEN /\ alert' = "Aucune sauvegarde trouvee"
          /\ UNCHANGED <<data, crashed, editors, effects>>
     ELSE IF JSONparse(storage.txt).ok
     THEN /\ SetData(JSONparse(storage.txt).v, editors)
          /\ alert' = "Donnees restaurees"
     ELSE \* JSON.parse throws out of the click handler
          /\ alert' = "none"
          /\ UNCHANGED <<data, crashed, editors, effects>>
  /\ Called("restoreFromLocalStorage", storage.txt # <<>>)
  /\ UNCHANGED <<uuid, subs, pdf, fx, download, storage>>

\* filename: `Cahier_Tests_${data.jiraNumber}.pdf`, data being that of the
\* render whose generatePDF was clicked
PdfFilename(d) == <<"Cahier_Tests_">> \o Get(d, "jiraNumber").v \o <<".pdf">>

\* the PDF button whatever isGenerating: never disabled
PdfButtonDisabled_Never == FALSE

\* <button onClick={generatePDF} disabled={isGenerating}>
PdfButtonDisabled == pdf.isGenerating

\* a click on the PDF button: on a disabled button no handler runs; otherwise
\* generatePDF up to its setTimeout(..., 500)
generatePDF ==
  /\ Quiescent
  /\ IF PdfButtonDisabled
     THEN UNCHANGED <<pdf, alert>>
     ELSE IF ~Truthy(Get(data, "jiraNumber")) \/ ~Truthy(Get(data, "jiraName"))
     THEN /\ alert' = "Veuillez remplir au moins le numero et le nom de la JIRA"
          /\ UNCHANGED pdf
     ELSE /\ pdf.timers + pdf.calls < MaxPending
          /\ pdf' = [pdf EXCEPT !.isGenerating = TRUE, !.timers = @ + 1,
                                !.filename = PdfFilename(data), !.of = data]
          /\ alert' = "none"
  /\ Called("generatePDF", pdf'.timers > pdf.timers)
  /\ UNCHANGED <<data, crashed, uuid, fx, download, storage, editors, effects, subs>>

\* the setTimeout callback of generatePDF, up to its await: html2pdf()...save()
\* on pdfTemplateRef.current, which shows the document of the latest render
generatePDFTimeout ==
  /\ pdf.timers > 0
  /\ pdf' = [pdf EXCEPT !.timers = @ - 1, !.calls = @ + 1, !.element = data]
  /\ UNCHANGED <<data, crashed, uuid, alert, call, fx, download, storage, editors,
                 effects, subs>>

\* the callback with setIsGenerating(false) at the end of the try block only
AfterSave_NoFinally(p, ok) ==
  [p EXCEPT !.calls = @ - 1, !.isGenerating = IF ok THEN FALSE ELSE @]

\* the state of the export after the promise of save() has settled: finally
AfterSave(p, ok) == [p EXCEPT !.calls = @ - 1, !.isGenerating = FALSE]

\* the promise of html2pdf()...save() settles: fulfilled (ok) or rejected
html2pdfSettles(ok) ==
  /\ pdf.calls > 0
  /\ pdf' = AfterSave(pdf, ok)
  /\ alert' = IF ok THEN alert ELSE "Erreur lors de la generation du PDF"
  /\ Called("html2pdf", ok)
  /\ UNCHANGED <<data, crashed, uuid, fx, download, storage, editors, effects, subs>>

\* handlePrint: window.print() shows the print dialog and returns when the
\* user has closed it
handlePrint ==
  /\ Quiescent
  /\ alert' = IF ~Truthy(Get(data, "jiraNumber")) \/ ~Truthy(Get(data, "jiraName"))
              THEN "Veuillez remplir au moins le numero et le nom de la JIRA"
              ELSE "none"
  /\ Called("handlePrint", alert' = "none")
  /\ UNCHANGED <<data, crashed, uuid, fx, download, storage, editors, effects,
                 subs, pdf>>

Init ==
  /\ data = INITIAL_DATA
  /\ crashed = FALSE
  /\ uuid = 1
  /\ alert = "none"
  /\ call = [op |-> "init", hit |-> TRUE, run |-> 0, base |-> <<>>]
  /\ fx = NoFx
  /\ download = NoFile
  /\ storage = NoFile
  /\ editors = CommitEditors(<<>>, INITIAL_DATA)
  /\ effects = CommitEffects(<<>>, INITIAL_DATA, INITIAL_DATA)
  /\ subs = {}
  /\ pdf = [isGenerating |-> FALSE, timers |-> 0, calls |-> 0,
            filename |-> <<>>, of |-> Null, element |-> Null]

\* ------------------------------------------------------------ effects
\* new Quill(editorRef.current, ...): the surface holds its default empty document
NewQuill == [quill |-> TRUE, html |-> EmptyHtml, doc |-> EmptyHtml, dirty |-> FALSE]

\* the first effect (deps []): whether it writes '' to the fresh surface
mountEffectWrites(ed, value) == ed.html # value /\ value = Str(<<>>)

\* the [value] effect without its comparison: it writes on every run
valueEffectWrites_Always(ed, value) == ed.quill

\* the [value] effect without its assignment: it never writes
valueEffectWrites_Never(ed, value) == FALSE

\* the second effect (deps [value]): whether it writes value to the surface
valueEffectWrites(ed, value) == ed.quill /\ value # ed.html

\* root.innerHTML = value, which the surface's mutation observer will see
WriteHtml(ed, value) == [ed EXCEPT !.html = value, !.dirty = TRUE]

Ran(op, id, wrote) == fx' = [op |-> op, id |-> id, wrote |-> wrote]

mountEffect(id) ==
  /\ ~crashed
  /\ <<"mount", id>> \in effects
  /\ LET ed == IF editors[id].quill THEN editors[id] ELSE NewQuill
         wr == mountEffectWrites(ed, ValueOf(data, id))
     IN  /\ editors' = [editors EXCEPT ![id] = IF wr THEN WriteHtml(ed, Str(<<>>)) ELSE ed]
         /\ Ran("mountEffect", id, wr)
  /\ subs' = IF editors[id].quill THEN subs ELSE subs \cup {id}
  /\ effects' = effects \ {<<"mount", id>>}
  /\ UNCHANGED <<data, crashed, uuid, pdf, alert, call, download, storage>>

valueEffect(id) ==
  /\ ~crashed
  /\ <<"value", id>> \in effects
  /\ <<"mount", id>> \notin effects
  /\ LET wr == valueEffectWrites(editors[id], ValueOf(data, id))
     IN  /\ editors' = [editors EXCEPT
                          ![id] = IF wr THEN WriteHtml(@, ValueOf(data, id)) ELSE @]
         /\ Ran("valueEffect", id, wr)
  /\ effects' = effects \ {<<"value", id>>}
  /\ UNCHANGED <<data, crashed, uuid, subs, pdf, alert, call, download, storage>>

\* quillRef.current.on('text-change', ...): onChange(root.innerHTML || ''), that
\* is updateStep(step.id, { content })
textChange(id, ed) ==
  /\ SetData(updateStepUpdater(data, id, [content |-> ed.html]),
             [editors EXCEPT ![id] = ed])
  /\ alert' = "none"
  /\ Called("textChange", id \in StepIds(data))

\* the surface's mutation observer, after a write to root.innerHTML: Quill
\* rebuilds its document from the DOM and emits text-change when it changed
observe(id) ==
  /\ ~crashed
  /\ effects = {}
  /\ editors[id].dirty
  /\ LET ed == [editors[id] EXCEPT !.html = Canon(@), !.doc = Canon(editors[id].html),
                                   !.dirty = FALSE]
     IN  IF ed.doc # editors[id].doc
         THEN textChange(id, ed)
         ELSE /\ editors' = [editors EXCEPT ![id] = ed]
              /\ UNCHANGED <<data, crashed, effects, alert, call>>
  /\ Ran("observe", id, FALSE)
  /\ UNCHANGED <<uuid, subs, pdf, download, storage>>

\* the user types in the surface of step id, which then holds html
keystroke(id, html) ==
  /\ Quiescent
  /\ editors[id].quill
  /\ editors[id].doc # html
  /\ textChange(id, [editors[id] EXCEPT !.html = html, !.doc = html])
  /\ UNCHANGED <<uuid, subs, pdf, fx, download, storage>>

\* the user types in the surface of step id after the commit of a text-change
\* of that surface and before the commit's passive effect (the [value] effect,
\* the only one it scheduled) has run. text-change calls onChange, whose
\* setData(html) React renders only after it has flushed that effect; the effect
\* then meets a buffer that differs from its value and writes, Quill emits
\* text-change for the write, and that later update of the same content is
\* rendered in the same batch and prevails: the queued one never shows
keystrokeBeforeEffects(id, html) ==
  /\ ~crashed
  /\ call.op = "textChange"
  /\ effects = {<<"value", id>>}
  /\ \A i \in DOMAIN editors : ~editors[i].dirty
  /\ editors[id].quill
  /\ editors[id].doc # html
  /\ editors' = [editors EXCEPT ![id] = [@ EXCEPT !.html = html, !.doc = html]]
  /\ UNCHANGED <<data, crashed, uuid, subs, pdf, alert, call, fx, download, storage, effects>>

\* ------------------------------------------------------------ specifications
Effects ==
  \E id \in DOMAIN editors : mountEffect(id) \/ valueEffect(id) \/ observe(id)

\* what the form's inputs wired to handleInputChange can send
InputEvents == {<<"jiraNumber", v>> : v \in {Str(<<>>), JiraNumber1}}

\* the partial steps the title input calls updateStep with
Updates == {[title |-> UserTitle]}

\* the document store: every handler that changes the document, and restore
Next ==
  \/ \E e \in InputEvents : handleInputChange(e[1], e[2])
  \/ handleImageUpload
  \/ addStep
  \/ \E id \in KnownIds : removeStep(id)
  \/ \E id \in KnownIds : \E u \in Updates : updateStep(id, u)
  \/ \E file \in CraftedFiles : handleFileUpload(file)
  \/ Effects

Spec == Init /\ [][Next]_vars

\* what handleInputChange does with any event, wired to the form or not
WideEvents ==
  InputEvents
  \cup {<<"type", Str(<<v>>)>> : v \in {"TMA", "XYZ"}}
  \cup {<<"version", Str(<<"1">>)>>, <<"steps", Str(<<"x">>)>>}

\* field edits alone
NextSetField ==
  \/ \E e \in WideEvents : handleInputChange(e[1], e[2])
  \/ \E c \in {"OK", "KO"} : setConclusion(c)
  \/ handleImageUpload
  \/ Effects

SpecSetField == Init /\ [][NextSetField]_vars

ForeignDocEmpty == Spread(ForeignDoc, "steps", Arr(<<ForeignStep(Str(<<>>))>>))

EditorFiles ==
  {File(JSONstringify(d, TRUE)) : d \in {ForeignDoc, ForeignDocEmpty}}

\* the editors: typing, steps added and removed, restores that keep or change
\* the step ids
NextEditor ==
  \/ \E id \in DOMAIN editors : \E html \in {HtmlA, EmptyHtml} : keystroke(id, html)
  \/ addStep
  \/ \E id \in StepIds(data) : removeStep(id)
  \/ \E file \in EditorFiles : handleFileUpload(file)
  \/ Effects

SpecEditor == Init /\ [][NextEditor]_vars

\* the same, where React does run the effects it scheduled and the browser does
\* deliver the observer's callbacks
SpecEditorLive == SpecEditor /\ WF_vars(Effects)

\* a document with an image and two steps, one with markup JSON escapes
TwoStepsDoc ==
  Spread(Spread(ForeignDoc, "localImage", ImageUri), "steps",
         Arr(<<ForeignStep(HtmlQ),
               Obj([id |-> Str(<<"f2">>), title |-> Str(<<"Etape ", "2">>),
                    content |-> Str(<<>>)])>>))

\* export and restore: downloadJSON then handleFileUpload of the file it made,
\* saveToLocalStorage then restoreFromLocalStorage
NextCodec ==
  \/ downloadJSON
  \/ download.txt # <<>> /\ handleFileUpload(File(download.txt))
  \/ handleFileUpload(File(JSONstringify(TwoStepsDoc, TRUE)))
  \/ saveToLocalStorage
  \/ restoreFromLocalStorage
  \/ \E id \in StepIds(data) : removeStep(id)
  \/ \E id \in DOMAIN editors : keystroke(id, HtmlQ)
  \/ Effects

SpecCodec == Init /\ [][NextCodec]_vars

\* the editors when the user may type in the window between a commit and its
\* passive effects
NextRace ==
  \/ \E id \in DOMAIN editors : \E html \in {HtmlA, HtmlQ} : keystroke(id, html)
  \/ \E id \in DOMAIN editors : \E html \in {HtmlA, HtmlQ} :
       keystrokeBeforeEffects(id, html)
  \/ addStep
  \/ \E id \in StepIds(data) : removeStep(id)
  \/ \E file \in EditorFiles : handleFileUpload(file)
  \/ Effects

SpecRace == Init /\ [][NextRace]_vars

\* jiraNumber and jiraName as the form's inputs send them
RenderEvents ==
  {<<"jiraNumber", v>> : v \in {Str(<<>>), JiraNumber1}}
  \cup {<<"jiraName", v>> : v \in {Str(<<>>), Str(<<"N">>)}}

\* PDF export and print, while the document is edited
NextRender ==
  \/ \E e \in RenderEvents : handleInputChange(e[1], e[2])
  \/ \E c \in {"OK", "KO"} : setConclusion(c)
  \/ generatePDF
  \/ generatePDFTimeout
  \/ \E ok \in BOOLEAN : html2pdfSettles(ok)
  \/ handlePrint
  \/ Effects

SpecRender == Init /\ [][NextRender]_vars

\* the same, where the timer does fire and the promise of save() does settle
SpecRenderLive ==
  /\ SpecRender
  /\ WF_vars(Effects)
  /\ WF_vars(generatePDFTimeout)
  /\ WF_vars(\E ok \in BOOLEAN : html2pdfSettles(ok))

\* the identifiers typed in the jiraNumber input
JiraNumbers ==
  { Str(<<>>), Str(<<"E", "R", "P", "-", "1", "2", "3", "4">>), Str(<<"a", "b">>),
    Str(<<"1", "a", "0", "-", "2">>) }

\* the document as the preview and the print template show it: the fields and
\* steps they render are edited
NextView ==
  \/ \E v \in JiraNumbers : handleInputChange("jiraNumber", v)
  \/ \E c \in {"OK", "KO"} : setConclusion(c)
  \/ handleImageUpload
  \/ addStep
  \/ \E id \in StepIds(data) : removeStep(id)
  \/ \E id \in DOMAIN editors : keystroke(id, HtmlQ)
  \/ handlePrint
  \/ Effects

SpecView == Init /\ [][NextView]_vars

\* restores of a well-formed file and of one whose steps share an id
StepFiles ==
  {File(JSONstringify(d, TRUE)) : d \in {ForeignDoc, DupIdsDoc}}

\* the steps: added, removed, retitled, typed in, and replaced by a restore
NextSteps ==
  \/ addStep
  \/ \E id \in KnownIds : removeStep(id)
  \/ \E id \in KnownIds : \E u \in Updates : updateStep(id, u)
  \/ \E id \in DOMAIN editors : keystroke(id, HtmlQ)
  \/ \E file \in StepFiles : handleFileUpload(file)
  \/ Effects

SpecSteps == Init /\ [][NextSteps]_vars

\* ------------------------------------------------------------ the document store
StepId(i) == Get(StepsOf(data)[i], "id")

\* C1: no two steps of the document have the same id, in every state reached by
\* addStep, removeStep, updateStep, field edits, image upload and restore
C1_UniqueStepIds ==
  Get(data, "steps").t = "arr" =>
    \A i, j \in DOMAIN StepsOf(data) : i # j => StepId(i) # StepId(j)

C3_AbsentRemoveIsNoOp ==
  [][\A id \in KnownIds :
       (id \notin StepIds(data) /\ call'.op = "removeStep" /\ removeStep(id))
         => (data' = data /\ alert' = "none" /\ ~crashed')]_vars

C3_Witness == call.op = "removeStep" /\ ~call.hit /\ StepsOf(data) # <<>>

\* C4: after two (or more) consecutive addStep calls the steps are those before
\* the calls, unchanged and in order, followed by the new steps in call order,
\* whose ids differ from each other and from every earlier id
C4_TwoAddSteps ==
  (call.op = "addStep" /\ call.run >= 2) =>
    LET s == StepsOf(data)
        b == Len(call.base)
    IN  /\ Len(s) = b + call.run
        /\ SubSeq(s, 1, b) = call.base
        /\ \A i \in (b + 1)..Len(s) : \A j \in 1..Len(s) :
             i # j => StepId(i) # StepId(j)

C4_Witness ==
  call.op = "addStep" /\ call.run = 2 /\ call.base # <<>> /\ Quiescent

\* C5: a restore from a file whose value is a record without `steps` fails and
\* leaves the document as it was
C5_MissingStepsRejected ==
  [][\A file \in CraftedFiles :
       (/\ file.json.ok
        /\ file.json.v.t = "obj"
        /\ "steps" \notin DOMAIN file.json.v.v
        /\ handleFileUpload(file))
         => (data' = data /\ alert' # "Donnees restaurees avec succes")]_vars

AllowedLiterals(k) ==
  CASE k = "type" -> {Str(<<"TMD">>), Str(<<"TMA">>)}
    [] k = "environment" -> {Str(<<"FRECMCOR">>), Str(<<"FPOST">>)}
    [] k = "conclusion" -> {Str(<<"OK">>), Str(<<"KO">>)}

\* C6: the document's type, environment and conclusion are always one of their
\* two literals; a restored value with another literal is never stored
C6_EnumsValid ==
  \A k \in {"type", "environment", "conclusion"} :
    Get(data, k).t = "str" => Get(data, k) \in AllowedLiterals(k)

ParseErrorAlert == "Erreur lors de la lecture du fichier de sauvegarde"

\* C8: every failed restore (text that does not parse, or a top-level value that
\* is not a record) leaves the document as it was and is reported as an error
C8_FailedRestoreReported ==
  [][\A file \in CraftedFiles :
       ((~file.json.ok \/ file.json.v.t # "obj") /\ handleFileUpload(file))
         => (data' = data /\ alert' = ParseErrorAlert)]_vars

\* ------------------------------------------------------------ export and restore
\* C7: exporting a document (downloadJSON, saveToLocalStorage) and restoring from
\* what was produced yields a document equal to the exported one
C7_RoundTrip ==
  [][/\ (/\ download.txt # <<>>
         /\ call'.op = "handleFileUpload"
         /\ handleFileUpload(File(download.txt)))
        => (data' = download.of /\ ~crashed')
     /\ (/\ storage.txt # <<>>
         /\ call'.op = "restoreFromLocalStorage"
         /\ restoreFromLocalStorage)
        => (data' = storage.of /\ ~crashed')]_vars

\* a restore of an exported document with no step and no image, over another
C7_Witness ==
  /\ call.op = "handleFileUpload"
  /\ alert = "Donnees restaurees avec succes"
  /\ data = download.of
  /\ StepsOf(data) = <<>>
  /\ Get(data, "localImage") = Null

\* ------------------------------------------------------------ field edits
\* the top-level scalar fields of AppData
KnownFields == DOMAIN INITIAL_DATA.v \ {"steps"}

\* a field edit the document type allows
ValidField(name, value) ==
  /\ name \in KnownFields
  /\ name \in {"type", "environment", "conclusion"} => value \in AllowedLiterals(name)

\* C9: a field edit with an unknown key, or a value the field does not allow, is
\* rejected with InvalidField and leaves the document as it was
C9_InvalidFieldRejected ==
  [][\A e \in WideEvents :
       (/\ ~ValidField(e[1], e[2])
        /\ call'.op = "handleInputChange"
        /\ handleInputChange(e[1], e[2]))
         => (data' = data /\ alert' = "InvalidField")]_vars

\* ------------------------------------------------------------ editor binding
\* C10: once the surface is bound and its buffer equals the step's content, the
\* [value] effect run again with that content writes nothing to the surface
C10_InboundIdempotent ==
  [][\A id \in DOMAIN editors :
       (/\ editors[id].quill
        /\ editors[id].html = ValueOf(data, id)
        /\ valueEffect(id))
         => (~fx'.wrote /\ editors'[id] = editors[id])]_vars

C10_Witness ==
  /\ fx.op = "valueEffect"
  /\ ~fx.wrote
  /\ fx.id \in DOMAIN editors
  /\ editors[fx.id].quill
  /\ editors[fx.id].html = ValueOf(data, fx.id)
  /\ ValueOf(data, fx.id) = HtmlA

\* C11: a content change that came from the surface's own text-change never
\* makes the [value] effect write to that surface: when the pending [value]
\* effect was scheduled by the render of a text-change (only the emitting
\* step's value changed), its run writes nothing, whatever the user typed since
C11_AntiLoop ==
  [][\A id \in DOMAIN editors :
       (call.op = "textChange" /\ <<"value", id>> \in effects /\ valueEffect(id))
         => ~fx'.wrote]_vars

\* C12: for a never-touched step (content '', the surface holding its default
\* '<p><br></p>') the mount effect and every run of the [value] effect write
\* nothing to the surface and leave the document as it is
C12_EmptyEquivalence ==
  [][\A id \in DOMAIN editors :
       (/\ ValueOf(data, id) = Str(<<>>)
        /\ \/ <<"mount", id>> \in effects /\ mountEffect(id)
           \/ /\ <<"value", id>> \in effects
              /\ editors[id].html = EmptyHtml
              /\ valueEffect(id))
         => (~fx'.wrote /\ data' = data)]_vars

\* C13: an editor that is unmounted (its step removed, or dropped by a restore)
\* no longer holds its text-change subscription: only mounted editors subscribe
C13_SubscriptionReleased ==
  subs \subseteq {id \in DOMAIN editors : editors[id].quill}

\* C14: after a restore, when the [value] effect has overwritten the surface of
\* a step with the restored content, the synchronization ends with the buffer
\* equal to the step's content and the document still holding what was restored
C14_ExternalOverwrite ==
  [][\A id \in DOMAIN editors :
       (/\ call.op = "handleFileUpload"
        /\ fx = [op |-> "valueEffect", id |-> id, wrote |-> TRUE]
        /\ editors[id].dirty
        /\ observe(id))
         => (data' = data /\ editors'[id].html = ValueOf(data', id))]_vars

\* the step ids a document of the model can hold
AllIds == {randomUUID(n) : n \in 1..MaxUuid} \cup {ForeignId}

\* a step's content is markup other than '' and the surface's empty default
HasContent(d, id) ==
  ValueOf(d, id).t = "str" /\ ValueOf(d, id) \notin {Str(<<>>), EmptyHtml}

\* C15: a step that has content before its surface is attached (its mount
\* effect is still to run) eventually has that content in the surface buffer,
\* and no effect or observer callback replaces such a content
C15_PendingBind ==
  /\ [][\A id \in DOMAIN editors :
          (HasContent(data, id) /\ (mountEffect(id) \/ valueEffect(id) \/ observe(id)))
            => ValueOf(data', id) = ValueOf(data, id)]_vars
  /\ \A id \in AllIds :
       (id \in DOMAIN editors /\ <<"mount", id>> \in effects /\ HasContent(data, id))
         ~> (id \in DOMAIN editors /\ editors[id].quill
             /\ editors[id].html = ValueOf(data, id))

\* the restored content of a step has just been applied to its surface
C15_Witness ==
  /\ call.op = "handleFileUpload"
  /\ ForeignId \in DOMAIN editors
  /\ fx = [op |-> "valueEffect", id |-> ForeignId, wrote |-> TRUE]
  /\ editors[ForeignId].doc = EmptyHtml
  /\ HasContent(data, ForeignId)
  /\ editors[ForeignId].html = ValueOf(data, ForeignId)

\* ------------------------------------------------------------ PDF export
\* C16: at most one PDF export is outstanding (its timer pending or its
\* html2pdf call unsettled), and then isGenerating is set; a click on the PDF
\* button while one is outstanding starts nothing
C16_RenderMutex ==
  /\ [](pdf.timers + pdf.calls <= 1)
  /\ [](pdf.timers + pdf.calls = 1 => pdf.isGenerating)
  /\ [][(pdf.timers + pdf.calls > 0 /\ call'.op = "generatePDF" /\ generatePDF)
          => (pdf' = pdf /\ ~call'.hit)]_vars

\* the PDF button was clicked while an html2pdf call was unsettled
C16_Witness ==
  /\ call = [op |-> "generatePDF", hit |-> FALSE, run |-> 0, base |-> <<>>]
  /\ pdf.calls = 1
  /\ pdf.isGenerating
  /\ Truthy(Get(data, "jiraNumber")) /\ Truthy(Get(data, "jiraName"))

\* C17: when the promise of save() is rejected the failure is alerted, the
\* document is left as it is and isGenerating is cleared; isGenerating is
\* cleared when it is fulfilled too, and an isGenerating that is set is
\* eventually cleared
C17_RenderFailure ==
  /\ [][\A ok \in BOOLEAN :
          (pdf.calls > 0 /\ call'.op = "html2pdf" /\ html2pdfSettles(ok))
            => /\ data' = data
               /\ ~pdf'.isGenerating
               /\ ~ok => alert' = "Erreur lors de la generation du PDF"]_vars
  /\ (pdf.isGenerating ~> ~pdf.isGenerating)

\* the promise of save() was rejected
C17_Witness ==
  /\ call = [op |-> "html2pdf", hit |-> FALSE, run |-> 0, base |-> <<>>]
  /\ alert = "Erreur lors de la generation du PDF"
  /\ ~pdf.isGenerating
  /\ pdf.calls = 0

\* ------------------------------------------------------------ rendering
\* C18: for the document of any state, the preview modal and the print
\* template hold the same content section; their containers differ
C18_RenderingDeterminism ==
  ~crashed =>
    /\ Preview(data).content = PrintTemplate(data).content
    /\ Preview(data).container # PrintTemplate(data).container

\* a document with digits in its number, an image and a step with markup
C18_Witness ==
  /\ ~crashed
  /\ jiraDigits(data).v = <<"1", "0", "2">>
  /\ Truthy(Get(data, "localImage"))
  /\ \E i \in DOMAIN StepsOf(data) : Get(StepsOf(data)[i], "content") = HtmlQ
  /\ Len(PrintTemplate(data).content) = 4 + Len(StepsOf(data))

\* C19: the SQL snippet (of the print template and of the form) embeds the
\* digits of jiraNumber, in their order and nothing else, and the placeholder
\* XXXX exactly when jiraNumber has no digit; "ERP-1234" gives 1234
C19_DigitExtraction ==
  ~crashed =>
    LET n   == Get(data, "jiraNumber").v
        dg  == SelectSeq(n, LAMBDA c : c \in Digits)
        sql == PrintTemplate(data).content[1].text
        emb == SubSeq(sql, 2, Len(sql) - 1)
    IN  /\ PrintTemplate(data).content[1].kind = "sql"
        /\ sql[1] = SqlHead /\ sql[Len(sql)] = SqlTail
        /\ sqlQuery(data) = sql
        /\ dg # <<>> => emb = dg
        /\ (emb = Placeholder) <=> (dg = <<>>)
        /\ n = <<"E", "R", "P", "-", "1", "2", "3", "4">> => emb = <<"1", "2", "3", "4">>

\* the number is ERP-1234 and the snippet embeds 1234
C19_Witness ==
  /\ ~crashed
  /\ Get(data, "jiraNumber") = Str(<<"E", "R", "P", "-", "1", "2", "3", "4">>)
  /\ sqlQuery(data) = <<SqlHead, "1", "2", "3", "4", SqlTail>>

\* C20: the content section ends with one block per step, in the order of the
\* document, each atomic and carrying the step's number, title and content as
\* they are, followed by one atomic conclusion block, styled conclusion-ok for
\* OK and conclusion-ko for KO, whose text holds the conclusion
C20_StepAndConclusionBlocks ==
  ~crashed =>
    LET c      == PrintTemplate(data).content
        steps  == StepsOf(data)
        k      == Len(c)
        blocks == SelectSeq(c, LAMBDA b : b.kind = "step")
        concl  == Get(data, "conclusion")
    IN  /\ Len(blocks) = Len(steps)
        /\ \A i \in 1..Len(steps) :
             /\ c[k - 1 - Len(steps) + i] = blocks[i]
             /\ blocks[i].atomic
             /\ blocks[i].title = <<"Etape ", Dec(i), " : ", Get(steps[i], "title")>>
             /\ blocks[i].html = Get(steps[i], "content")
        /\ Cardinality({i \in 1..k : c[i].kind = "conclusion"}) = 1
        /\ c[k].kind = "conclusion" /\ c[k].atomic
        /\ c[k].text[Len(c[k].text)] = concl
        /\ concl = Str(<<"OK">>) => c[k].class = "conclusion-ok"
        /\ concl = Str(<<"KO">>) => c[k].class = "conclusion-ko"

\* two steps of different content are rendered, and the conclusion is KO
C20_Witness ==
  /\ ~crashed
  /\ Len(StepsOf(data)) >= 2
  /\ Get(StepsOf(data)[1], "content") # Get(StepsOf(data)[2], "content")
  /\ Get(data, "conclusion") = Str(<<"KO">>)
  /\ PrintTemplate(data).content[Len(PrintTemplate(data).content)].class = "conclusion-ko"

\* ------------------------------------------------------------ frame of the steps
\* the ids of d's steps in their order (d.steps itself when it is no array)
IdSeq(d) ==
  IF Get(d, "steps").t = "arr"
  THEN Arr([i \in DOMAIN StepsOf(d) |-> Get(StepsOf(d)[i], "id")])
  ELSE Get(d, "steps")

\* C21: the sequence of step ids changes only through addStep, removeStep or
\* a restore: updateStep, a text-change, every field edit and every image
\* upload leave it as it is
C21_StepOrderStable ==
  [][IdSeq(data') # IdSeq(data)
       => call'.op \in {"addStep", "removeStep", "handleFileUpload",
                        "restoreFromLocalStorage"}]_vars

\* the sequence q without its i-th element
Without(q, i) == SubSeq(q, 1, i - 1) \o SubSeq(q, i + 1, Len(q))

\* C22: removeStep with the id of a step removes that one step and leaves the
\* others, their ids, titles, contents and order, as they are; addStep titles
\* the step it appends "Etape n" with n the length of the list before plus
\* one, and gives it an id no step has
C22_RemoveExactlyOne ==
  [][/\ \A id \in KnownIds :
          (id \in StepIds(data) /\ call'.op = "removeStep" /\ removeStep(id))
            => \E i \in DOMAIN StepsOf(data) :
                 /\ Get(StepsOf(data)[i], "id") = id
                 /\ StepsOf(data') = Without(StepsOf(data), i)
     /\ (call'.op = "addStep" /\ addStep)
          => LET n == Len(StepsOf(data)) IN
             /\ SubSeq(StepsOf(data'), 1, n) = StepsOf(data)
             /\ Len(StepsOf(data')) = n + 1
             /\ Get(StepsOf(data')[n + 1], "title") = Str(<<"Etape ">> \o Dec(n + 1))
             /\ Get(StepsOf(data')[n + 1], "id") \notin StepIds(data)]_vars

\* the top-level fields of d other than steps
TopLevel(d) == [k \in DOMAIN d.v \ {"steps"} |-> d.v[k]]

\* C23: a text-change of the surface of a step changes the content of that
\* step only: the other steps, the id and title of every step, the order of
\* the steps and the top-level fields are as before
C23_NotificationFrame ==
  [][call'.op = "textChange" =>
       LET old == StepsOf(data)  new == StepsOf(data') IN
       /\ TopLevel(data') = TopLevel(data)
       /\ Len(new) = Len(old)
       /\ \A i \in DOMAIN old :
            /\ Get(new[i], "id") = Get(old[i], "id")
            /\ Get(new[i], "title") = Get(old[i], "title")
       /\ Cardinality({i \in DOMAIN old : new[i] # old[i]}) <= 1]_vars

\* ------------------------------------------------------------ export snapshot
\* C24: the document html2pdf is given after the delay is the document that
\* was current when generatePDF was clicked, so the file name describes the
\* document rendered; the document does not change while the timer is pending
C24_SnapshotConsistency ==
  /\ [](pdf.calls > 0 =>
          /\ pdf.element = pdf.of
          /\ pdf.filename = PdfFilename(pdf.element))
  /\ [][pdf.timers > 0 => data' = data]_vars

\* the jiraNumber or the jiraName of d is empty
MissingJira(d) == ~Truthy(Get(d, "jiraNumber")) \/ ~Truthy(Get(d, "jiraName"))

\* C25: a click on the PDF button or a print with an empty jiraNumber or
\* jiraName only alerts, leaving the document and the export as they are, and
\* html2pdf and window.print() are called only for a document with both
C25_NoBackendWithoutJira ==
  /\ [][(/\ MissingJira(data)
          /\ \/ call'.op = "generatePDF" /\ ~pdf.isGenerating /\ generatePDF
             \/ call'.op = "handlePrint" /\ handlePrint)
          => /\ data' = data /\ pdf' = pdf /\ ~call'.hit
             /\ alert' = "Veuillez remplir au moins le numero et le nom de la JIRA"]_vars
  /\ []((call.op = "handlePrint" /\ call.hit) => ~MissingJira(data))
  /\ [](pdf.calls > 0 => ~MissingJira(pdf.element))
====
